---- MODULE Spec2Model ----
(***************************************************************************)
(* A model of CRMQueryProcessor (src/crmqueryprocessor.py): the SQL        *)
(* sanitizer clean_sql, the prompt builder and the retry loop of           *)
(* process_query over its three external calls (SQL generation, query      *)
(* execution, insight synthesis) and the backoff sleep.                    *)
(*                                                                         *)
(* Text handled character by character (clean_sql) is a sequence of        *)
(* one-character strings; text that the code only concatenates (prompts,   *)
(* error messages) is a sequence of tokens.                                *)
(***************************************************************************)
EXTENDS Integers, Sequences, FiniteSets, TLC

VARIABLES
    db_config,      \* self.db_config, set by __init__
    api_key,        \* os.getenv("OPENAI_API_KEY")
    pc,             \* per call of process_query: where the call stands
    natural_query,  \* per call: the question
    attempt,        \* per call: the loop variable of process_query
    last_error,     \* per call: the local last_error
    sql,            \* per call: the sql of the attempt under way
    results,        \* per call: the records of the attempt under way
    result,         \* per call: what process_query returned
    trace,          \* per call: the external calls made so far, in order
    conns,          \* every database connection opened so far
    caught,         \* per call: the errors attempt_query_execution caught
    clock,          \* wall clock, in seconds
    text,           \* sanitizer specification: the input of clean_sql
    out,            \* sanitizer specification: the successive outputs
    fetched,        \* record specification: the columns and rows of a cursor
    records,        \* record specification: what execute_query returns for them
    asked,          \* prompt specification: a question and an attempt number
    built,          \* prompt specification: the prompt built for them
    response        \* per call: what the /insights endpoint answered

vars == <<db_config, api_key, pc, natural_query, attempt, last_error, sql,
          results, result, trace, caught, conns, clock, text, out,
          fetched, records, asked, built, response>>

\* the variables of the specifications of the pure functions
pureVars == <<text, out, fetched, records, asked, built>>

callVars == <<pc, natural_query, attempt, last_error, sql, results, result,
              trace, caught, response>>

-----------------------------------------------------------------------------
(* Characters and character sequences *)

\* the backquote character (a TLA+ string cannot hold it)
BT == "BQ"
NL == "\n"
SP == " "

\* what \s matches and what str.strip() removes, among the characters used
Whitespace == {SP, NL}

Fence == <<BT, BT, BT>>
FenceSql == <<BT, BT, BT, "s", "q", "l">>
Select1 == <<"S", "E", "L", "E", "C", "T", SP, "1">>

StartsWith(s, p) == Len(s) >= Len(p) /\ SubSeq(s, 1, Len(p)) = p

EndsWith(s, p) == Len(s) >= Len(p) /\ SubSeq(s, Len(s) - Len(p) + 1, Len(s)) = p

AllWhitespace(s) == \A i \in 1..Len(s) : s[i] \in Whitespace

RECURSIVE LStrip(_)
LStrip(s) ==
    IF s # <<>> /\ Head(s) \in Whitespace THEN LStrip(Tail(s)) ELSE s

RECURSIVE RStrip(_)
RStrip(s) ==
    IF s # <<>> /\ s[Len(s)] \in Whitespace
    THEN RStrip(SubSeq(s, 1, Len(s) - 1))
    ELSE s

\* str.strip()
Strip(s) == RStrip(LStrip(s))

\* re.sub(r'```sql\s*', '', s): every non-overlapping match, left to right,
\* each match taking the whitespace that follows it
RECURSIVE SubFenceSql(_)
SubFenceSql(s) ==
    IF s = <<>> THEN <<>>
    ELSE IF StartsWith(s, FenceSql)
         THEN SubFenceSql(LStrip(SubSeq(s, Len(FenceSql) + 1, Len(s))))
         ELSE <<Head(s)>> \o SubFenceSql(Tail(s))

\* re.sub(r'```\s*$', '', s): the leftmost ``` followed by nothing but
\* whitespace up to the end of the string is removed with that whitespace
SubTrailingFence(s) ==
    LET starts == {i \in 1..Len(s) :
                      /\ StartsWith(SubSeq(s, i, Len(s)), Fence)
                      /\ AllWhitespace(SubSeq(s, i + Len(Fence), Len(s)))}
    IN  IF starts = {} THEN s
        ELSE LET i == CHOOSE j \in starts : \A k \in starts : j <= k
             IN  SubSeq(s, 1, i - 1)

clean_sql(s) == Strip(SubTrailingFence(SubFenceSql(s)))

-----------------------------------------------------------------------------
(* The sanitizer on its own: clean_sql applied to a text, then to its own
   output. *)

MaxPieces == 5

\* the pieces the texts are made of
Pieces == {Fence, FenceSql, <<"s">>, <<"q", "l">>, <<SP>>, <<NL>>, Select1}

RECURSIVE Concat(_)
Concat(ps) == IF ps = <<>> THEN <<>> ELSE Head(ps) \o Concat(Tail(ps))

Texts == {Concat(ps) : ps \in UNION {[1..n -> Pieces] : n \in 0..MaxPieces}}

-----------------------------------------------------------------------------
(* Configuration *)

MAX_RETRIES == 3
RETRY_DELAY == 1

\* Python's None
None == "<None>"

\* bool(v) is False: an unset variable (None) or an empty string
Falsy(v) == v \in {None, ""}

\* what an environment variable may hold
EnvValues == {None, "", "v"}

\* faulty variant: the password is not checked
ConfigCompleteNoPassword(cfg) ==
    /\ ~Falsy(cfg.host)
    /\ ~Falsy(cfg.database)
    /\ ~Falsy(cfg.user)

\* all([host, database, user, password]) of process_query
ConfigComplete(cfg) ==
    /\ ~Falsy(cfg.host)
    /\ ~Falsy(cfg.database)
    /\ ~Falsy(cfg.user)
    /\ ~Falsy(cfg.password)

ConfigError == <<"Database configuration is incomplete">>
ApiKeyError == <<"OpenAI API key is not set">>

\* the precondition of process_query: <<>> when it passes, else the message
\* of the exception raised
Precondition(cfg, key) ==
    IF ~ConfigComplete(cfg) THEN ConfigError
    ELSE IF Falsy(key) THEN ApiKeyError
    ELSE <<>>

-----------------------------------------------------------------------------
(* Questions and prompts: sequences of tokens *)

\* faulty variant: the question is not lowered
LowerNot(w) == w

\* str.lower() on the words used
Lower(w) ==
    CASE w = "This" -> "this"
      [] w = "MONTH" -> "month"
      [] w = "Orders" -> "orders"
      [] OTHER -> w

\* a question is its words, one space between two words; "this month" is in
\* the lowered question when a word ending in "this" is followed by a word
\* beginning with "month"
EndsInThis == {"this"}
BeginsWithMonth == {"month", "monthly"}

HasThisMonth(q) ==
    \E i \in 1..(Len(q) - 1) :
        /\ Lower(q[i]) \in EndsInThis
        /\ Lower(q[i + 1]) \in BeginsWithMonth

Questions ==
    { <<"Orders", "This", "MONTH">>,
      <<"top", "customers">> }

\* no question asked
NoQuestion == [q |-> <<>>, k |-> 0]

MonthNote == <<"Note: Use January 2024 as 'this month' for the sample data.">>

\* str(n) of a small number, as f-strings format it
Str(n) ==
    CASE n = 0 -> "0" [] n = 1 -> "1" [] n = 2 -> "2" [] n = 3 -> "3"
      [] n = 4 -> "4" [] n = 5 -> "5" [] n = 6 -> "6" [] OTHER -> "many"

\* faulty variant: the errors the processor caught so far follow the marker
AttemptMarkerWithErrors(k) ==
    <<"attempt ", Str(k), " of ", Str(MAX_RETRIES)>>
    \o Concat(caught["c1"]) \o Concat(caught["c2"])

\* the marker of attempt k in a prompt
AttemptMarker(k) == <<"attempt ", Str(k), " of ", Str(MAX_RETRIES)>>

\* the prompt enhance_query sends for question q at attempt k
Prompt(q, k) ==
    <<"Given this database schema:", "<schema>", "Important notes: 1-5", "This is ">>
    \o AttemptMarker(k)
    \o <<".", "If previous attempts failed, generate a different variation of the query.",
         "Convert this business question to PostgreSQL (return ONLY the SQL): ">>
    \o q
    \o <<"Important schema and PostgreSQL notes">>
    \o (IF HasThisMonth(q) THEN MonthNote ELSE <<>>)

Contains(s, p) ==
    \E i \in 0..(Len(s) - Len(p)) : SubSeq(s, i + 1, i + Len(p)) = p

-----------------------------------------------------------------------------
(* Result sets and records *)

\* dict(zip(columns, row)): a dict is a sequence of <<key, value>> pairs in
\* insertion order; a key met again keeps its place and takes the new value
RECURSIVE DictZip(_, _)
DictZip(columns, row) ==
    IF columns = <<>> \/ row = <<>> THEN <<>>
    ELSE LET n == IF Len(columns) < Len(row) THEN Len(columns) ELSE Len(row)
             d == DictZip(SubSeq(columns, 1, n - 1), SubSeq(row, 1, n - 1))
             k == columns[n]
         IN  IF \E i \in 1..Len(d) : d[i][1] = k
             THEN [i \in 1..Len(d) |-> IF d[i][1] = k THEN <<k, row[n]>> ELSE d[i]]
             ELSE Append(d, <<k, row[n]>>)

\* faulty variant: the records come out in reverse row order
RecordsReversed(columns, rows) ==
    [i \in 1..Len(rows) |-> DictZip(columns, rows[Len(rows) + 1 - i])]

\* [dict(zip(columns, row)) for row in results]
Records(columns, rows) == [i \in 1..Len(rows) |-> DictZip(columns, rows[i])]

\* what the database may answer to a statement: columns and rows
ResultSets ==
    { [columns |-> <<"id", "name">>, rows |-> <<>>],
      [columns |-> <<"id", "name">>, rows |-> << <<"1", "a">>, <<"2", "b">> >>],
      [columns |-> <<"id", "id">>,   rows |-> << <<"1", "2">> >>] }

-----------------------------------------------------------------------------
(* The external services: what each call may come back with *)

Select2 == <<"S", "E", "L", "E", "C", "T", SP, "2">>

\* texts the generation service answers a SQL request with
RawTexts ==
    { FenceSql \o <<NL>> \o Select1 \o <<NL>> \o Fence,
      <<SP>> \o Select2 \o <<NL>> }

\* client.chat.completions.create in enhance_query: an error or a text
SqlResponses ==
    { [ok |-> FALSE, msg |-> <<"Connection error.">>, content |-> <<>>] }
    \cup { [ok |-> TRUE, msg |-> <<>>, content |-> raw] : raw \in RawTexts }

\* client.chat.completions.create in generate_insights
InsightResponses ==
    { [ok |-> FALSE, msg |-> <<"Rate limit reached">>, content |-> <<>>],
      [ok |-> TRUE, msg |-> <<>>, content |-> <<"Key metrics ...">>] }

NoRows == [columns |-> <<>>, rows |-> <<>>]

\* the database, per call of execute_query: the step that fails, or the
\* result set
DbResponses ==
    { [kind |-> "connect_error", msg |-> <<"could not connect to server">>, rs |-> NoRows],
      [kind |-> "execute_error", msg |-> <<"syntax error at or near">>, rs |-> NoRows],
      [kind |-> "no_description", msg |-> <<"'NoneType' object is not iterable">>, rs |-> NoRows],
      [kind |-> "fetch_error", msg |-> <<"server closed the connection unexpectedly">>, rs |-> NoRows] }
    \cup { [kind |-> "rows", msg |-> <<>>, rs |-> r] : r \in ResultSets }

-----------------------------------------------------------------------------
(* execute_query *)

\* faulty variant: the driver's error is raised as it is
DatabaseErrorBare(msg) == msg

\* raise Exception(f"Database error: {str(e)}")
DatabaseError(msg) == <<"Database error: ">> \o msg

\* what execute_query hands to its caller on database response d
execute_query(d) ==
    IF d.kind = "rows"
    THEN [ok |-> TRUE, val |-> Records(d.rs.columns, d.rs.rows)]
    ELSE [ok |-> FALSE, val |-> DatabaseError(d.msg)]

\* the connection execute_query leaves behind on response d, for call c at
\* attempt k: none when connect failed; else cur.execute was called once on
\* it, the cursor's with block closed
\* the cursor, and the connection's with block ended the transaction
\* (commit, or rollback on an exception) and did not close the connection
Connection(c, k, d) ==
    IF d.kind = "connect_error" THEN <<>>
    ELSE << [call |-> c, attempt |-> k,
             statements |-> 1,
             cursor |-> "closed",
             txn |-> IF d.kind = "rows" THEN "committed" ELSE "rolled back",
             closed |-> FALSE] >>

-----------------------------------------------------------------------------
(* attempt_query_execution and process_query *)

Calls == {"c1", "c2"}

NoError == <<>>
NoResult == [unset |-> TRUE]
\* the endpoint has not answered
NoResponse == [status |-> "none"]

\* str(last_error)
StrError(e) == IF e = NoError THEN <<"None">> ELSE e

EmptyResultError == <<"Query returned no results">>

\* faulty variant: an empty result is not told from a result with rows
IsEmptyNever(rows) == FALSE

\* if not results
IsEmpty(rows) == rows = <<>>

\* faulty variant: attempt <= self.MAX_RETRIES
RetryableOffByOne(k) == k <= MAX_RETRIES

\* attempt < self.MAX_RETRIES, in the handler of attempt_query_execution
Retryable(k) == k < MAX_RETRIES

\* faulty variant: range(1, MAX_RETRIES + 2)
HasNextOffByOne(k) == k + 1 \in 1..(MAX_RETRIES + 1)

\* the loop of process_query, range(1, MAX_RETRIES + 1), has an attempt
\* after attempt k
HasNext(k) == k + 1 \in 1..MAX_RETRIES

\* faulty variant: the attempt number is left at its default
SuccessResultDefaultAttempt(q, s, rows, ins, k, now) ==
    [query |-> q, sql |-> s, results |-> rows, insights |-> ins,
     attempt |-> 1, timestamp |-> now]

\* the dict attempt_query_execution returns
SuccessResult(q, s, rows, ins, k, now) ==
    [query |-> q, sql |-> s, results |-> rows, insights |-> ins,
     attempt |-> k, timestamp |-> now]

\* faulty variant: the failure carries the success fields, left null
FailureResultWithNulls(msg, q, now) ==
    [error |-> msg, query |-> q, sql |-> None, results |-> None,
     insights |-> None, timestamp |-> now]

\* the dict process_query returns on failure
FailureResult(msg, q, now) ==
    [error |-> msg, query |-> q, timestamp |-> now]

\* faulty variant: the last error is left out of the message
ExhaustedMessageNoError(e) ==
    <<"All ", Str(MAX_RETRIES), " attempts failed.">>

\* f"All {self.MAX_RETRIES} attempts failed. Last error: {str(last_error)}"
ExhaustedMessage(e) ==
    <<"All ", Str(MAX_RETRIES), " attempts failed. Last error: ">> \o StrError(e)

Event(op, k, arg, ok, val) ==
    [op |-> op, attempt |-> k, arg |-> arg, ok |-> ok, val |-> val]

\* faulty variant: last_error is kept on the processor, one for all calls
LoopNextShared(c, le, now) ==
    /\ last_error' = [d \in Calls |-> le]
    /\ IF HasNext(attempt[c])
       THEN /\ attempt' = [attempt EXCEPT ![c] = @ + 1]
            /\ pc' = [pc EXCEPT ![c] = "enhance"]
            /\ result' = result
       ELSE /\ attempt' = attempt
            /\ pc' = [pc EXCEPT ![c] = "done"]
            /\ result' = [result EXCEPT ![c] =
                   FailureResult(ExhaustedMessage(le), natural_query[c], now)]

\* the loop of process_query goes on after attempt k of call c, last_error
\* being le: the next attempt, or the exhausted result
LoopNext(c, le, now) ==
    /\ last_error' = [last_error EXCEPT ![c] = le]
    /\ IF HasNext(attempt[c])
       THEN /\ attempt' = [attempt EXCEPT ![c] = @ + 1]
            /\ pc' = [pc EXCEPT ![c] = "enhance"]
            /\ result' = result
       ELSE /\ attempt' = attempt
            /\ pc' = [pc EXCEPT ![c] = "done"]
            /\ result' = [result EXCEPT ![c] =
                   FailureResult(ExhaustedMessage(le), natural_query[c], now)]

\* an attempt of call c raised e: the handler of attempt_query_execution
\* sleeps and returns None, or raises e again to process_query, which keeps
\* it as last_error and goes on with its loop
AttemptFailed(c, e) ==
    /\ caught' = [caught EXCEPT ![c] = Append(@, e)]
    /\ IF Retryable(attempt[c])
       THEN /\ pc' = [pc EXCEPT ![c] = "sleep"]
            /\ UNCHANGED <<attempt, last_error, result>>
       ELSE LoopNext(c, e, clock)

\* process_query up to its first attempt: the precondition
ProcessQuery(c, q) ==
    /\ pc[c] = "idle"
    /\ natural_query' = [natural_query EXCEPT ![c] = q]
    /\ LET e == Precondition(db_config, api_key)
       IN  IF e # <<>>
           THEN /\ pc' = [pc EXCEPT ![c] = "done"]
                /\ result' = [result EXCEPT ![c] = FailureResult(e, q, clock)]
                /\ UNCHANGED <<attempt, last_error>>
           ELSE /\ pc' = [pc EXCEPT ![c] = "enhance"]
                /\ attempt' = [attempt EXCEPT ![c] = 1]
                /\ last_error' = [last_error EXCEPT ![c] = NoError]
                /\ result' = result
    /\ UNCHANGED <<db_config, api_key, sql, results, trace, caught, conns, clock, response, pureVars>>

\* enhance_query: the prompt, the generation call, clean_sql; the service
\* answers with one of R
EnhanceQueryOn(c, R) ==
    /\ pc[c] = "enhance"
    /\ \E r \in R :
         LET prompt == Prompt(natural_query[c], attempt[c])
             s == clean_sql(Strip(r.content))
         IN  IF r.ok
             THEN /\ trace' = [trace EXCEPT ![c] =
                         Append(@, Event("enhance_query", attempt[c], prompt, TRUE, s))]
                  /\ sql' = [sql EXCEPT ![c] = s]
                  /\ pc' = [pc EXCEPT ![c] = "execute"]
                  /\ UNCHANGED <<attempt, last_error, result, caught>>
             ELSE /\ trace' = [trace EXCEPT ![c] =
                         Append(@, Event("enhance_query", attempt[c], prompt, FALSE, r.msg))]
                  /\ sql' = sql
                  /\ AttemptFailed(c, r.msg)
    /\ UNCHANGED <<db_config, api_key, natural_query, results, conns, clock, response, pureVars>>

EnhanceQuery(c) == EnhanceQueryOn(c, SqlResponses)

\* execute_query and the check of its result; the database answers with one
\* of D
ExecuteQueryOn(c, D) ==
    /\ pc[c] = "execute"
    /\ \E d \in D :
         LET r == execute_query(d)
         IN  /\ conns' = conns \o Connection(c, attempt[c], d)
             /\ trace' = [trace EXCEPT ![c] =
                    Append(@, Event("execute_query", attempt[c], sql[c], r.ok, r.val))]
             /\ IF ~r.ok THEN /\ AttemptFailed(c, r.val)
                              /\ results' = results
                ELSE IF IsEmpty(r.val)
                     THEN /\ AttemptFailed(c, EmptyResultError)
                          /\ results' = results
                     ELSE /\ results' = [results EXCEPT ![c] = r.val]
                          /\ pc' = [pc EXCEPT ![c] = "insights"]
                          /\ UNCHANGED <<attempt, last_error, result, caught>>
    /\ UNCHANGED <<db_config, api_key, natural_query, sql, clock, response, pureVars>>

ExecuteQuery(c) == ExecuteQueryOn(c, DbResponses)

\* generate_insights and the return of the attempt's result; the service
\* answers with one of R
GenerateInsightsOn(c, R) ==
    /\ pc[c] = "insights"
    /\ \E r \in R :
         IF r.ok
         THEN /\ trace' = [trace EXCEPT ![c] =
                     Append(@, Event("generate_insights", attempt[c], results[c], TRUE, r.content))]
              /\ result' = [result EXCEPT ![c] =
                     SuccessResult(natural_query[c], sql[c], results[c],
                                   r.content, attempt[c], clock)]
              /\ pc' = [pc EXCEPT ![c] = "done"]
              /\ UNCHANGED <<attempt, last_error, caught>>
         ELSE /\ trace' = [trace EXCEPT ![c] =
                     Append(@, Event("generate_insights", attempt[c], results[c], FALSE, r.msg))]
              /\ AttemptFailed(c, r.msg)
    /\ UNCHANGED <<db_config, api_key, natural_query, sql, results, conns, clock, response, pureVars>>

GenerateInsights(c) == GenerateInsightsOn(c, InsightResponses)

\* time.sleep(self.RETRY_DELAY), return None, and the loop goes on
Backoff(c) ==
    /\ pc[c] = "sleep"
    /\ clock' = clock + RETRY_DELAY
    /\ trace' = [trace EXCEPT ![c] =
           Append(@, Event("sleep", attempt[c], <<Str(RETRY_DELAY)>>, TRUE, <<>>))]
    /\ LoopNext(c, last_error[c], clock + RETRY_DELAY)
    /\ UNCHANGED <<db_config, api_key, natural_query, sql, results, caught, conns, response, pureVars>>

\* the garbage collector finalizes a connection object nothing refers to
\* any more, which closes it
Finalize(i) ==
    /\ ~conns[i].closed
    /\ conns' = [conns EXCEPT ![i].closed = TRUE]
    /\ UNCHANGED <<db_config, api_key, callVars, clock, pureVars>>

\* a step of call c
CallStep(c) ==
    \/ \E q \in Questions : ProcessQuery(c, q)
    \/ EnhanceQuery(c)
    \/ ExecuteQuery(c)
    \/ GenerateInsights(c)
    \/ Backoff(c)

Configs ==
    [host : EnvValues, database : EnvValues, user : EnvValues,
     password : EnvValues, port : {"5432"}]

\* the processor after __init__, with the calls of C about to be made
InitCalls(C) ==
    /\ db_config \in Configs
    /\ api_key \in EnvValues
    /\ pc = [c \in Calls |-> IF c \in C THEN "idle" ELSE "off"]
    /\ natural_query = [c \in Calls |-> <<>>]
    /\ attempt = [c \in Calls |-> 0]
    /\ last_error = [c \in Calls |-> NoError]
    /\ sql = [c \in Calls |-> <<>>]
    /\ results = [c \in Calls |-> <<>>]
    /\ result = [c \in Calls |-> NoResult]
    /\ trace = [c \in Calls |-> <<>>]
    /\ caught = [c \in Calls |-> <<>>]
    /\ response = [c \in Calls |-> NoResponse]
    /\ conns = <<>>
    /\ clock = 0
    /\ text = <<>>
    /\ out = <<>>
    /\ fetched = NoRows
    /\ records = <<>>
    /\ asked = NoQuestion
    /\ built = <<>>

Init == InitCalls({"c1"})

Next ==
    \/ \E c \in Calls : CallStep(c)
    \/ \E i \in 1..Len(conns) : Finalize(i)

\* one call of process_query
Spec == Init /\ [][Next]_vars

-----------------------------------------------------------------------------
(* The sanitizer on its own *)

\* how many times clean_sql is applied in a row
MaxApplications == 2

\* clean_sql applied to the text, then to its own last output
Sanitize ==
    /\ Len(out) < MaxApplications
    /\ out' = Append(out, clean_sql(IF out = <<>> THEN text ELSE out[Len(out)]))
    /\ UNCHANGED <<db_config, api_key, callVars, conns, clock, text, fetched, records, asked, built>>

InitClean ==
    /\ db_config = [host |-> "v", database |-> "v", user |-> "v",
                    password |-> "v", port |-> "5432"]
    /\ api_key = "v"
    /\ pc = [c \in Calls |-> "off"]
    /\ natural_query = [c \in Calls |-> <<>>]
    /\ attempt = [c \in Calls |-> 0]
    /\ last_error = [c \in Calls |-> NoError]
    /\ sql = [c \in Calls |-> <<>>]
    /\ results = [c \in Calls |-> <<>>]
    /\ result = [c \in Calls |-> NoResult]
    /\ trace = [c \in Calls |-> <<>>]
    /\ caught = [c \in Calls |-> <<>>]
    /\ response = [c \in Calls |-> NoResponse]
    /\ conns = <<>>
    /\ clock = 0
    /\ text \in Texts
    /\ out = <<>>
    /\ fetched = NoRows
    /\ records = <<>>
    /\ asked = NoQuestion
    /\ built = <<>>

NextClean == Sanitize

SpecClean == InitClean /\ [][NextClean]_vars

-----------------------------------------------------------------------------
(* Properties of clean_sql, under SpecClean *)

\* C8: clean_sql is idempotent: applied to its own output it changes nothing.
CleanSqlIdempotent ==
    Len(out) >= 2 => out[2] = out[1]

\* C9: the output of clean_sql has no leading or trailing whitespace and
\* neither begins nor ends with a code-fence marker.
CleanSqlStripsFences ==
    Len(out) >= 1 =>
        /\ out[1] = Strip(out[1])
        /\ ~StartsWith(out[1], Fence)
        /\ ~EndsWith(out[1], Fence)

\* the fenced "SELECT 1" is cleaned to "SELECT 1"
CleanSqlExample ==
    (text = FenceSql \o <<NL>> \o Select1 \o <<NL>> \o Fence /\ Len(out) >= 1)
        => out[1] = Select1

-----------------------------------------------------------------------------
(* Reading the trace of a call *)

\* the events of operation op in the trace of call c, in order
EventsOf(c, op) == SelectSeq(trace[c], LAMBDA e : e.op = op)

Count(c, op) == Len(EventsOf(c, op))

\* attempt k of call c made the call op, which came back ok or not
Did(c, op, k, ok) ==
    \E i \in 1..Len(trace[c]) :
        /\ trace[c][i].op = op
        /\ trace[c][i].attempt = k
        /\ trace[c][i].ok = ok

\* attempt k of call c ran its query and got no row
ZeroRows(c, k) ==
    \E i \in 1..Len(trace[c]) :
        /\ trace[c][i].op = "execute_query"
        /\ trace[c][i].attempt = k
        /\ trace[c][i].ok
        /\ trace[c][i].val = <<>>

\* attempt k of call c ran its query and got at least one row
SomeRows(c, k) ==
    \E i \in 1..Len(trace[c]) :
        /\ trace[c][i].op = "execute_query"
        /\ trace[c][i].attempt = k
        /\ trace[c][i].ok
        /\ trace[c][i].val # <<>>

Returned(c) == pc[c] = "done"

SuccessFields == {"query", "sql", "results", "insights", "attempt", "timestamp"}
FailureFields == {"error", "query", "timestamp"}

IsSuccess(r) == DOMAIN r = SuccessFields
IsFailure(r) == DOMAIN r = FailureFields

\* a credential the precondition of process_query asks for is not there
CredentialMissing ==
    \/ \E f \in {"host", "database", "user", "password"} : db_config[f] \in {None, ""}
    \/ api_key \in {None, ""}

-----------------------------------------------------------------------------
(* Properties of process_query, under Spec *)

\* C1: when every attempt of a returned call ran its query and got zero
\* rows, the call returned the failure variant after exactly MAX_RETRIES
\* attempts: MAX_RETRIES SQL generations, MAX_RETRIES executions, no insight
\* synthesis, and MAX_RETRIES - 1 sleeps.
AllEmptyExhausts ==
    \A c \in Calls :
        (/\ Returned(c)
         /\ attempt[c] >= 1
         /\ \A k \in 1..attempt[c] : ZeroRows(c, k))
        => /\ IsFailure(result[c])
           /\ attempt[c] = MAX_RETRIES
           /\ Count(c, "enhance_query") = MAX_RETRIES
           /\ Count(c, "execute_query") = MAX_RETRIES
           /\ Count(c, "generate_insights") = 0
           /\ Count(c, "sleep") = MAX_RETRIES - 1

AllEmptyExhaustsWitness ==
    \E c \in Calls :
        /\ Returned(c)
        /\ attempt[c] = MAX_RETRIES
        /\ \A k \in 1..MAX_RETRIES : ZeroRows(c, k)

\* C2: for k in 2..MAX_RETRIES, when attempts 1..k-1 each failed with a
\* database error and attempt k got rows and its insights, the call has
\* returned the success variant with attempt = k, generate_insights was
\* called exactly once, and nothing was done after attempt k.
SucceedsAfterDatabaseErrors ==
    \A c \in Calls : \A k \in 2..MAX_RETRIES :
        (/\ \A j \in 1..(k - 1) : Did(c, "execute_query", j, FALSE)
         /\ SomeRows(c, k)
         /\ Did(c, "generate_insights", k, TRUE))
        => /\ Returned(c)
           /\ IsSuccess(result[c])
           /\ result[c].attempt = k
           /\ Count(c, "generate_insights") = 1
           /\ \A i \in 1..Len(trace[c]) : trace[c][i].attempt <= k
           /\ attempt[c] = k

SucceedsAfterDatabaseErrorsWitness ==
    \E c \in Calls :
        /\ \A j \in 1..(MAX_RETRIES - 1) : Did(c, "execute_query", j, FALSE)
        /\ SomeRows(c, MAX_RETRIES)
        /\ Did(c, "generate_insights", MAX_RETRIES, TRUE)
        /\ Returned(c)

\* C3: with a database credential or the generation-service credential
\* missing, a call that was made has returned the failure variant with the
\* configuration message, without any external call, connection, sleep or
\* attempt.
ConfigurationErrorIsImmediate ==
    \A c \in Calls :
        (CredentialMissing /\ pc[c] \notin {"off", "idle"})
        => /\ Returned(c)
           /\ IsFailure(result[c])
           /\ result[c].error \in
                 {<<"Database configuration is incomplete">>, <<"OpenAI API key is not set">>}
           /\ trace[c] = <<>>
           /\ \A i \in 1..Len(conns) : conns[i].call # c
           /\ attempt[c] = 0
           /\ caught[c] = <<>>

ConfigurationErrorWitness ==
    \E c \in Calls :
        /\ db_config.password = None
        /\ db_config.host = "v" /\ db_config.database = "v" /\ db_config.user = "v"
        /\ api_key = "v"
        /\ Returned(c)

\* C4: a call never ends but by returning one of the two variants: a call
\* under way can always go on, and a returned call holds either the success
\* fields and no error, or the failure fields only, with the question asked.
ReturnsOneVariant ==
    \A c \in Calls :
        /\ pc[c] \in {"enhance", "execute", "insights", "sleep"}
              => result[c] = NoResult /\ ENABLED CallStep(c)
        /\ Returned(c) =>
              \/ IsSuccess(result[c])
              \/ IsFailure(result[c]) /\ result[c].query = natural_query[c]

ReturnsOneVariantWitness ==
    \E c \in Calls :
        /\ Returned(c)
        /\ IsFailure(result[c])
        /\ Len(caught[c]) = MAX_RETRIES
        /\ Did(c, "generate_insights", MAX_RETRIES, FALSE)

\* C5: the failure variant of an exhausted call carries the message of the
\* error attempt MAX_RETRIES raised, whatever the earlier attempts raised.
ExhaustedCarriesLastError ==
    \A c \in Calls :
        (Returned(c) /\ Len(caught[c]) = MAX_RETRIES)
        => /\ IsFailure(result[c])
           /\ result[c].error =
                 <<"All ", "3", " attempts failed. Last error: ">> \o caught[c][MAX_RETRIES]

ExhaustedCarriesLastErrorWitness ==
    \E c \in Calls :
        /\ Returned(c)
        /\ Len(caught[c]) = MAX_RETRIES
        /\ caught[c][1] # caught[c][MAX_RETRIES]
        /\ caught[c][2] # caught[c][MAX_RETRIES]

\* C6: the attempt number stays within 0..MAX_RETRIES, and the k-th SQL
\* generation request of a call is the request of attempt k, its prompt
\* holding "attempt k of 3"; a call issues at most MAX_RETRIES of them.
AttemptsNumberedInOrder ==
    \A c \in Calls :
        LET G == EventsOf(c, "enhance_query")
        IN  /\ attempt[c] \in 0..MAX_RETRIES
            /\ Len(G) <= MAX_RETRIES
            /\ Len(G) = IF pc[c] = "enhance" THEN attempt[c] - 1 ELSE attempt[c]
            /\ \A k \in 1..Len(G) :
                  /\ G[k].attempt = k
                  /\ Contains(G[k].arg, <<"attempt ", Str(k), " of ", "3">>)

AttemptsNumberedInOrderWitness ==
    \E c \in Calls : Count(c, "enhance_query") = MAX_RETRIES

\* C7: a success variant holds at least one row, and an attempt whose query
\* got zero rows failed with the no-results error without any insight
\* synthesis.
SuccessHasRows ==
    \A c \in Calls :
        /\ (Returned(c) /\ IsSuccess(result[c])) => result[c].results # <<>>
        /\ \A k \in 1..MAX_RETRIES :
              ZeroRows(c, k)
              => /\ Len(caught[c]) >= k
                 /\ caught[c][k] = <<"Query returned no results">>
                 /\ ~Did(c, "generate_insights", k, TRUE)
                 /\ ~Did(c, "generate_insights", k, FALSE)
                 /\ (Returned(c) /\ IsSuccess(result[c])) => result[c].attempt # k

SuccessHasRowsWitness ==
    \E c \in Calls :
        /\ Returned(c)
        /\ IsSuccess(result[c])
        /\ ZeroRows(c, 1)

\* C10: once the next attempt has started or the call has returned, the
\* connection an attempt opened and its cursor are closed.
ConnectionsReleased ==
    \A i \in 1..Len(conns) :
        (Returned(conns[i].call) \/ attempt[conns[i].call] > conns[i].attempt)
        => conns[i].closed /\ conns[i].cursor = "closed"

-----------------------------------------------------------------------------
(* The conversion of rows to records on its own *)

MaxColumns == 2
MaxRows == 2

ColumnNames == {"id", "name"}
CellValues == {"1", "a"}

SeqsUpTo(S, n) == UNION {[1..k -> S] : k \in 0..n}

\* cur.description and cur.fetchall(): every row has one value per column
Fetchable ==
    UNION { { [columns |-> cols, rows |-> rows] :
                rows \in SeqsUpTo([1..Len(cols) -> CellValues], MaxRows) } :
            cols \in SeqsUpTo(ColumnNames, MaxColumns) }

\* execute_query on the columns and rows fetched
MapRows ==
    /\ records = <<>>
    /\ records' = <<execute_query([kind |-> "rows", msg |-> <<>>, rs |-> fetched])>>
    /\ UNCHANGED <<db_config, api_key, callVars, conns, clock, text, out, fetched, asked, built>>

InitRecords ==
    /\ db_config = [host |-> "v", database |-> "v", user |-> "v",
                    password |-> "v", port |-> "5432"]
    /\ api_key = "v"
    /\ pc = [c \in Calls |-> "off"]
    /\ natural_query = [c \in Calls |-> <<>>]
    /\ attempt = [c \in Calls |-> 0]
    /\ last_error = [c \in Calls |-> NoError]
    /\ sql = [c \in Calls |-> <<>>]
    /\ results = [c \in Calls |-> <<>>]
    /\ result = [c \in Calls |-> NoResult]
    /\ trace = [c \in Calls |-> <<>>]
    /\ caught = [c \in Calls |-> <<>>]
    /\ response = [c \in Calls |-> NoResponse]
    /\ conns = <<>>
    /\ clock = 0
    /\ text = <<>>
    /\ out = <<>>
    /\ fetched \in Fetchable
    /\ records = <<>>
    /\ asked = NoQuestion
    /\ built = <<>>

NextRecords == MapRows

SpecRecords == InitRecords /\ [][NextRecords]_vars

\* the keys of a dict, in order
Keys(d) == [i \in 1..Len(d) |-> d[i][1]]

\* d[k]
Get(d, k) == d[CHOOSE i \in 1..Len(d) : d[i][1] = k][2]

HasKey(d, k) == \E i \in 1..Len(d) : d[i][1] = k

Distinct(s) == \A i, j \in 1..Len(s) : s[i] = s[j] => i = j

\* C11 as stated: n rows give n records in row order, the i-th record
\* mapping each column name to the value of its column in the i-th row,
\* keys in column order.
RecordsMapEveryColumn ==
    records # <<>> =>
        /\ records[1].ok
        /\ Len(records[1].val) = Len(fetched.rows)
        /\ \A i \in 1..Len(fetched.rows) :
              /\ Keys(records[1].val[i]) = fetched.columns
              /\ \A j \in 1..Len(fetched.columns) :
                    /\ HasKey(records[1].val[i], fetched.columns[j])
                    /\ Get(records[1].val[i], fetched.columns[j]) = fetched.rows[i][j]

\* C11 amended: n rows give n records in row order, and when the column
\* names are pairwise distinct the i-th record maps each column name to the
\* value of its column in the i-th row, keys in column order.
RecordsMapDistinctColumns ==
    records # <<>> =>
        /\ records[1].ok
        /\ Len(records[1].val) = Len(fetched.rows)
        /\ Distinct(fetched.columns) =>
              \A i \in 1..Len(fetched.rows) :
                 /\ Keys(records[1].val[i]) = fetched.columns
                 /\ \A j \in 1..Len(fetched.columns) :
                       /\ HasKey(records[1].val[i], fetched.columns[j])
                       /\ Get(records[1].val[i], fetched.columns[j]) = fetched.rows[i][j]

RecordsMapDistinctColumnsWitness ==
    /\ records # <<>>
    /\ fetched.columns = <<"id", "name">>
    /\ fetched.rows = << <<"1", "a">>, <<"a", "1">> >>

-----------------------------------------------------------------------------
(* The prompt of enhance_query on its own *)

MaxWords == 3

Vocabulary == {"Orders", "this", "This", "month", "MONTH", "monthly", "year"}

\* the prompt of enhance_query for the question and the attempt asked
BuildPrompt ==
    /\ built = <<>>
    /\ built' = Prompt(asked.q, asked.k)
    /\ UNCHANGED <<db_config, api_key, callVars, conns, clock, text, out,
                   fetched, records, asked>>

InitPrompt ==
    /\ db_config = [host |-> "v", database |-> "v", user |-> "v",
                    password |-> "v", port |-> "5432"]
    /\ api_key = "v"
    /\ pc = [c \in Calls |-> "off"]
    /\ natural_query = [c \in Calls |-> <<>>]
    /\ attempt = [c \in Calls |-> 0]
    /\ last_error = [c \in Calls |-> NoError]
    /\ sql = [c \in Calls |-> <<>>]
    /\ results = [c \in Calls |-> <<>>]
    /\ result = [c \in Calls |-> NoResult]
    /\ trace = [c \in Calls |-> <<>>]
    /\ caught = [c \in Calls |-> <<>>]
    /\ response = [c \in Calls |-> NoResponse]
    /\ conns = <<>>
    /\ clock = 0
    /\ text = <<>>
    /\ out = <<>>
    /\ fetched = NoRows
    /\ records = <<>>
    /\ asked \in [q : SeqsUpTo(Vocabulary, MaxWords), k : 1..MAX_RETRIES]
    /\ built = <<>>

NextPrompt == BuildPrompt

SpecPrompt == InitPrompt /\ [][NextPrompt]_vars

\* the question says "this month", in whatever letter case
SaysThisMonth(q) ==
    \E i \in 1..(Len(q) - 1) :
        /\ q[i] \in {"this", "This"}
        /\ q[i + 1] \in {"month", "MONTH", "monthly"}

\* C12: at every attempt number, the prompt holds the note pinning 'this
\* month' to January 2024 when the question contains "this month" (in
\* whatever letter case), and does not hold it otherwise.
PinsThisMonth ==
    built # <<>> =>
        (Contains(built, <<"Note: Use January 2024 as 'this month' for the sample data.">>)
            <=> SaysThisMonth(asked.q))

PinsThisMonthWitness ==
    /\ built # <<>>
    /\ asked = [q |-> <<"Orders", "This", "MONTH">>, k |-> MAX_RETRIES]
    /\ Contains(built, <<"Note: Use January 2024 as 'this month' for the sample data.">>)

-----------------------------------------------------------------------------
(* More properties of process_query, under Spec *)

\* the places in the trace of call c of the events of attempt k made by op
Places(c, op, k) ==
    {i \in 1..Len(trace[c]) : trace[c][i].op = op /\ trace[c][i].attempt = k}

\* C13: every sleep lasts RETRY_DELAY, ends an attempt below MAX_RETRIES
\* that failed and comes right before the first call of the next attempt;
\* every attempt that was followed by another had exactly one sleep; there is
\* no sleep in the attempt that succeeded, in attempt MAX_RETRIES or without
\* any attempt; a returned call that made attempts slept once less than it
\* made attempts; the time slept is one second for each sleep.
OneBackoffBetweenAttempts ==
    \A c \in Calls :
        /\ \A i \in 1..Len(trace[c]) :
              trace[c][i].op = "sleep"
              => /\ trace[c][i].arg = <<"1">>
                 /\ trace[c][i].attempt < MAX_RETRIES
                 /\ Len(caught[c]) >= trace[c][i].attempt
                 /\ i > 1 /\ trace[c][i - 1].attempt = trace[c][i].attempt
                 /\ trace[c][i - 1].op # "sleep"
                 /\ i < Len(trace[c]) =>
                       /\ trace[c][i + 1].op = "enhance_query"
                       /\ trace[c][i + 1].attempt = trace[c][i].attempt + 1
        /\ \A k \in 1..MAX_RETRIES :
              /\ k < attempt[c] => Cardinality(Places(c, "sleep", k)) = 1
              /\ k >= attempt[c] /\ Returned(c) => Places(c, "sleep", k) = {}
        /\ Returned(c) =>
              Count(c, "sleep") = IF attempt[c] >= 1 THEN attempt[c] - 1 ELSE 0
        /\ clock = (Count("c1", "sleep") + Count("c2", "sleep")) * 1

OneBackoffBetweenAttemptsWitness ==
    \E c \in Calls :
        /\ Returned(c)
        /\ IsSuccess(result[c])
        /\ result[c].attempt = MAX_RETRIES
        /\ Count(c, "sleep") = 2

\* C14: an attempt calls generate_insights at most once, right after its
\* execute_query returned rows, and on those rows; a failed generate_insights
\* fails the attempt: below MAX_RETRIES a sleep follows, then the SQL
\* generation of the next attempt, and at MAX_RETRIES the call returns the
\* failure variant.
InsightsOncePerAttempt ==
    \A c \in Calls : \A k \in 1..MAX_RETRIES :
        /\ Cardinality(Places(c, "generate_insights", k)) <= 1
        /\ \A i \in Places(c, "generate_insights", k) :
              /\ i > 1
              /\ trace[c][i - 1].op = "execute_query"
              /\ trace[c][i - 1].attempt = k
              /\ trace[c][i - 1].ok
              /\ trace[c][i - 1].val # <<>>
              /\ trace[c][i].arg = trace[c][i - 1].val
              /\ ~trace[c][i].ok =>
                    /\ Len(caught[c]) >= k /\ caught[c][k] = trace[c][i].val
                    /\ IF k < MAX_RETRIES
                       THEN /\ i = Len(trace[c]) => pc[c] = "sleep"
                            /\ i < Len(trace[c]) => trace[c][i + 1].op = "sleep"
                            /\ i + 1 < Len(trace[c]) =>
                                  /\ trace[c][i + 2].op = "enhance_query"
                                  /\ trace[c][i + 2].attempt = k + 1
                       ELSE /\ i = Len(trace[c])
                            /\ Returned(c)
                            /\ IsFailure(result[c])

InsightsOncePerAttemptWitness ==
    \E c \in Calls :
        /\ Did(c, "generate_insights", 1, FALSE)
        /\ Did(c, "generate_insights", 2, FALSE)
        /\ Did(c, "generate_insights", 3, TRUE)

\* the messages of the database driver
DriverMessages ==
    { <<"could not connect to server">>, <<"syntax error at or near">>,
      <<"'NoneType' object is not iterable">>,
      <<"server closed the connection unexpectedly">> }

\* C15: an attempt calls execute_query at most once, which opens at most
\* one connection and executes at most one statement on it; whatever failed,
\* the error it raises is "Database error: " followed by the driver's
\* message; it fails the attempt: below MAX_RETRIES a sleep follows and then
\* the next attempt, at MAX_RETRIES the call returns the failure variant.
DatabaseErrorsUniform ==
    \A c \in Calls : \A k \in 1..MAX_RETRIES :
        /\ Cardinality(Places(c, "execute_query", k)) <= 1
        /\ Cardinality({j \in 1..Len(conns) :
                           conns[j].call = c /\ conns[j].attempt = k})
              <= Cardinality(Places(c, "execute_query", k))
        /\ \A j \in 1..Len(conns) : conns[j].statements <= 1
        /\ \A i \in Places(c, "execute_query", k) :
              ~trace[c][i].ok =>
                 /\ \E m \in DriverMessages :
                       trace[c][i].val = <<"Database error: ">> \o m
                 /\ Len(caught[c]) >= k /\ caught[c][k] = trace[c][i].val
                 /\ IF k < MAX_RETRIES
                    THEN /\ i = Len(trace[c]) => pc[c] = "sleep"
                         /\ i < Len(trace[c]) => trace[c][i + 1].op = "sleep"
                         /\ i + 1 < Len(trace[c]) =>
                               /\ trace[c][i + 2].op = "enhance_query"
                               /\ trace[c][i + 2].attempt = k + 1
                    ELSE /\ i = Len(trace[c])
                         /\ Returned(c)
                         /\ IsFailure(result[c])
                         /\ EndsWith(result[c].error, trace[c][i].val)

DatabaseErrorsUniformWitness ==
    \E c \in Calls :
        /\ Returned(c)
        /\ Len(caught[c]) = MAX_RETRIES
        /\ caught[c][1] = <<"Database error: ", "could not connect to server">>
        /\ caught[c][2] = <<"Database error: ", "'NoneType' object is not iterable">>
        /\ caught[c][3] = <<"Database error: ", "server closed the connection unexpectedly">>

\* C19: a success variant is made of one attempt, the one whose number it
\* carries: its sql is the cleaned SQL that attempt generated, its results
\* the records that attempt's execute_query returned for that SQL, and its
\* insights those synthesized from these records.
SuccessFromOneAttempt ==
    \A c \in Calls :
        (Returned(c) /\ IsSuccess(result[c])) =>
            LET k == result[c].attempt
            IN  /\ result[c].sql \in {Select1, Select2}
                /\ \E i \in Places(c, "enhance_query", k) :
                      trace[c][i].ok /\ trace[c][i].val = result[c].sql
                /\ \E i \in Places(c, "execute_query", k) :
                      /\ trace[c][i].ok
                      /\ trace[c][i].arg = result[c].sql
                      /\ trace[c][i].val = result[c].results
                /\ \E i \in Places(c, "generate_insights", k) :
                      /\ trace[c][i].ok
                      /\ trace[c][i].arg = result[c].results
                      /\ trace[c][i].val = result[c].insights
                /\ result[c].query = natural_query[c]
                /\ k = attempt[c]

SuccessFromOneAttemptWitness ==
    \E c \in Calls :
        /\ Returned(c)
        /\ IsSuccess(result[c])
        /\ result[c].attempt = MAX_RETRIES
        /\ result[c].sql = Select1
        /\ \E i \in Places(c, "execute_query", 1) :
              /\ trace[c][i].arg = Select2
              /\ trace[c][i].ok
              /\ trace[c][i].val # <<>>
              /\ trace[c][i].val # result[c].results

-----------------------------------------------------------------------------
(* Termination.  process_query has no cancellation and no timeout of its own:
   every step of a call is the return of the external call it waits for or a
   sleep that ends, so a call that can take a step eventually takes it. *)

SpecFair == Spec /\ \A c \in Calls : WF_vars(CallStep(c))

CallsBounded ==
    \A c \in Calls :
        /\ Count(c, "enhance_query") <= MAX_RETRIES
        /\ Count(c, "execute_query") <= MAX_RETRIES
        /\ Count(c, "generate_insights") <= MAX_RETRIES
        /\ Count(c, "sleep") <= MAX_RETRIES - 1

\* C18: when every external call returns, every call of process_query
\* eventually returns a result, and it never makes more than MAX_RETRIES
\* SQL generations, MAX_RETRIES query executions, MAX_RETRIES insight
\* syntheses or MAX_RETRIES - 1 sleeps.
TerminatesWithinBounds ==
    /\ []CallsBounded
    /\ \A c \in Calls : (pc[c] # "off") ~> Returned(c)

TerminatesWithinBoundsWitness ==
    \E c \in Calls :
        /\ Returned(c)
        /\ Count(c, "enhance_query") = MAX_RETRIES
        /\ Count(c, "execute_query") = MAX_RETRIES
        /\ Count(c, "generate_insights") = MAX_RETRIES
        /\ Count(c, "sleep") = MAX_RETRIES - 1

-----------------------------------------------------------------------------
(* The /insights endpoint (crmqueryprocessorapi.py): get_insights calls
   process_query with the request's query and answers from the dict it
   returned. *)

\* str(e) of the HTTPException raised with keyword arguments at line 54.
\* The source does not fix the version of the framework: a version whose
\* HTTPException defines __str__ gives "<status>: <detail>", one that does
\* not gives Exception's own str of an exception without positional
\* arguments, the empty string.
StrHTTPException(status, detail) ==
    { <<status, ": ">> \o detail, <<>> }

\* result.get("insights", "No insights generated")
GetInsightsOr(r) ==
    IF "insights" \in DOMAIN r THEN r.insights ELSE <<"No insights generated">>

\* what get_insights does once process_query returned: on a dict with the
\* key "error", HTTPException(status_code=500, detail=result["error"]) is
\* raised inside the try block, caught by its "except Exception as e" and
\* raised again as HTTPException(status_code=500, detail=str(e)); else an
\* InsightResponse is returned
get_insights(c) ==
    /\ pc[c] = "done"
    /\ response[c] = NoResponse
    /\ IF "error" \in DOMAIN result[c]
       THEN \E d \in StrHTTPException("500", result[c].error) :
                response' = [response EXCEPT
                                ![c] = [status |-> "500", detail |-> d]]
       ELSE response' = [response EXCEPT
                            ![c] = [status |-> "200",
                                    insights |-> GetInsightsOr(result[c]),
                                    timestamp |-> clock]]
    /\ UNCHANGED <<db_config, api_key, pc, natural_query, attempt, last_error,
                   sql, results, result, trace, caught, conns, clock, pureVars>>

InitApi == Init

NextApi ==
    \/ Next
    \/ \E c \in Calls : get_insights(c)

\* one request to the endpoint
SpecApi == InitApi /\ [][NextApi]_vars

Answered(c) == response[c] # NoResponse

EndpointStatusFollowsVariant ==
    \A c \in Calls :
        Answered(c) =>
            /\ IsSuccess(result[c]) <=>
                  /\ response[c].status = "200"
                  /\ response[c].insights = result[c].insights
            /\ IsFailure(result[c]) <=> response[c].status = "500"
            /\ response[c].status = "200" =>
                  response[c].insights # <<"No insights generated">>

-----------------------------------------------------------------------------
(* Two calls of process_query on one processor, their steps interleaved.
   Both ask the same question and each service answers with one of a few of
   its responses. *)

SameQuestion == {<<"Orders", "This", "MONTH">>}

FewSqlResponses ==
    {r \in SqlResponses : r.ok => r.content = <<SP>> \o Select2 \o <<NL>>}

FewDbResponses ==
    {d \in DbResponses :
        /\ d.kind \in {"execute_error", "rows"}
        /\ Distinct(d.rs.columns)}

ConcStep(c) ==
    \/ \E q \in SameQuestion : ProcessQuery(c, q)
    \/ EnhanceQueryOn(c, FewSqlResponses)
    \/ ExecuteQueryOn(c, FewDbResponses)
    \/ GenerateInsightsOn(c, InsightResponses)
    \/ Backoff(c)

InitConc == InitCalls(Calls)

NextConc == \E c \in Calls : ConcStep(c)

SpecConc == InitConc /\ [][NextConc]_vars

\* the requests for SQL that call c sent at attempt k
Requests(c, k) ==
    {trace[c][i].arg : i \in Places(c, "enhance_query", k)}

\* C16: two calls that ask the same question send the same request for SQL
\* at the same attempt number, whatever happened to each of them in its
\* earlier attempts.
RequestsMemoryless ==
    \A c, d \in Calls : \A k \in 1..MAX_RETRIES :
        natural_query[c] = natural_query[d] =>
            \A x \in Requests(c, k) : \A y \in Requests(d, k) : x = y

\* two calls asked the same question and reached attempt MAX_RETRIES, one
\* after a generation error and a database error, the other after a result
\* without rows and a failed insight synthesis
RequestsMemorylessWitness ==
    /\ natural_query["c1"] = natural_query["c2"]
    /\ natural_query["c1"] \in SameQuestion
    /\ Requests("c1", MAX_RETRIES) # {}
    /\ Requests("c2", MAX_RETRIES) # {}
    /\ caught["c1"] = << <<"Connection error.">>,
                         <<"Database error: ", "syntax error at or near">> >>
    /\ caught["c2"] = << EmptyResultError, <<"Rate limit reached">> >>

\* the error attempt k raised, read from the trace tr of a call
AttemptError(tr, k) ==
    LET F == {i \in 1..Len(tr) :
                 /\ tr[i].attempt = k
                 /\ tr[i].op # "sleep"
                 /\ \/ ~tr[i].ok
                    \/ tr[i].op = "execute_query" /\ tr[i].val = <<>>}
    IN  IF F = {} THEN NoError
        ELSE LET i == CHOOSE j \in F : TRUE
             IN  IF tr[i].ok THEN EmptyResultError ELSE tr[i].val

\* the value of op in attempt k of the trace tr
ValueOf(tr, op, k) ==
    LET i == CHOOSE j \in 1..Len(tr) : tr[j].op = op /\ tr[j].attempt = k
    IN  tr[i].val

\* what a call that asked q and met the outcomes of tr returns when it runs
\* alone, its timestamp apart; NoResult while it has not finished
AloneResult(q, tr, cfg, key) ==
    IF tr = <<>>
    THEN IF Precondition(cfg, key) # <<>>
         THEN [error |-> Precondition(cfg, key), query |-> q]
         ELSE NoResult
    ELSE LET last == tr[Len(tr)]
         IN  IF last.op = "generate_insights" /\ last.ok
             THEN [query |-> q,
                   sql |-> ValueOf(tr, "enhance_query", last.attempt),
                   results |-> ValueOf(tr, "execute_query", last.attempt),
                   insights |-> last.val,
                   attempt |-> last.attempt]
             ELSE IF AttemptError(tr, MAX_RETRIES) # NoError
             THEN [error |-> <<"All ", "3", " attempts failed. Last error: ">>
                                \o AttemptError(tr, MAX_RETRIES),
                   query |-> q]
             ELSE NoResult

\* the attempt a call with trace tr is in when it runs alone
AloneAttempt(tr) ==
    IF tr = <<>> THEN 1
    ELSE IF tr[Len(tr)].op = "sleep" THEN tr[Len(tr)].attempt + 1
    ELSE tr[Len(tr)].attempt

WithoutTimestamp(r) ==
    IF r = NoResult THEN NoResult
    ELSE [f \in DOMAIN r \ {"timestamp"} |-> r[f]]

\* C17: under every interleaving of two calls, the attempt counter, the
\* last error and the result of each call are those its own question and
\* the outcomes of its own external calls give when it runs alone (the
\* timestamp is the call's own reading of the clock).
CallsIndependent ==
    \A c \in Calls :
        pc[c] # "idle" =>
            /\ WithoutTimestamp(result[c])
                  = AloneResult(natural_query[c], trace[c], db_config, api_key)
            /\ Returned(c) <=> result[c] # NoResult
            /\ last_error[c] = AttemptError(trace[c], MAX_RETRIES)
            /\ attempt[c] = IF Precondition(db_config, api_key) # <<>>
                            THEN 0 ELSE AloneAttempt(trace[c])

\* both calls have returned, one with the success of its second attempt,
\* the other exhausted, and their steps were interleaved
CallsIndependentWitness ==
    /\ Returned("c1") /\ Returned("c2")
    /\ IsSuccess(result["c1"]) /\ result["c1"].attempt = 2
    /\ IsFailure(result["c2"])
    /\ Len(conns) = 3
    /\ conns[1].call = "c2" /\ conns[2].call = "c1" /\ conns[3].call = "c2"

====
